---------------------------- MODULE Spec2Model ----------------------------
(* A model of quick_fetcher: the chunk partition (threads.rs), the        *)
(* per-Download pipeline Download::spawn (downloader.rs, threads.rs,      *)
(* verify.rs) and the orchestrator Downloader::start_downloads            *)
(* (downloader.rs).                                                       *)
(*                                                                        *)
(* Three specifications share the module:                                 *)
(*   SpecChunks    Chunks::new and the Range header of Chunk::download,   *)
(*                 as pure functions of (threads, length);                *)
(*   SpecDownload  one Download taken through spawn against a server      *)
(*                 that honours HTTP byte ranges;                         *)
(*   Spec          start_downloads over a list of Downloads.              *)
EXTENDS Integers, Sequences, FiniteSets, TLC

VARIABLES
    \* ---- SpecChunks
    nThreads,     \* threads: u8 handed to Chunks::new
    resLength,    \* length: u64 handed to Chunks::new
    chunks,       \* Chunks.chunks: Vec<Chunk>
    ranges,       \* per chunk, the Range header its download computed
    cphase,       \* "new" | "built" | "panic"
    \* ---- SpecDownload (chunks is shared with SpecChunks)
    dl,           \* the Download: its configuration after finalize_threads
    reqs,         \* per chunk, the ranged GET that Chunk::download sent
    results,      \* per chunk, the Result of Chunk::download, or "pending"
    hashed,       \* the bytes Checksum::update has been fed
    vres,         \* Chunks::verify: "no" | "ok" | "mismatch" | "panic"
    file,         \* the contents of the output file
    saveIdx,      \* Chunks::save: index of the next chunk to write
    dpc,          \* where spawn is: "spawn" | "downloading" | "downloaded"
                  \*                 | "saving" | "done"
    outcome,      \* what spawn returned: "pending" | "Ok" | an error | "panic"
    \* ---- Spec, SpecFill, SpecThreads: start_downloads
    downloads,    \* Downloader.downloads: Vec<Download>
    simultaneous, \* Downloader.simultaneous
    srv,          \* per Download, the server's answer to its preflight GET
    fs,           \* the file system: path -> "old" | "empty" | "written"
    fillRes,      \* the Results of the fill_output futures, in list order
    rt,           \* per Download: its preflight, the ranged GETs sent, its spawn
    phase,        \* where start_downloads is
    nextIdx,      \* the next Download the dispatch stream yields
    collected,    \* the Results collect has gathered, in completion order
    ret,          \* what start_downloads returned, "pending" or "panic"
    files0,       \* the file system as it was when start_downloads was called
    \* ---- SpecRead, SpecSeek: decompress.rs, SliceReader
    slices,       \* SliceReader.slices: what is left of each slice
    index,        \* SliceReader.index
    inner_index,  \* SliceReader.inner_index
    data0,        \* the slices the reader was created over
    rpos,         \* the absolute position: bytes read since the last offset
                  \* a seek returned (since creation, without a seek)
    lastOp,       \* the last call on the reader and what it returned
    \* ---- SpecDownload: save_archive and the progress bars
    tarball,      \* Output::Tarball: the in-memory buffer decompress fills
    extracted,    \* what was unpacked into the extraction directory
    fileBar,      \* the per-file bar: "absent" | "running" | "finished"
    mainBar       \* the outer bar: None, or Some(number of inc(1) calls)

chunkVars == <<nThreads, resLength, chunks, ranges, cphase>>

dlVars == <<dl, reqs, results, hashed, vres, file, saveIdx, dpc, outcome>>

archVars == <<tarball, extracted, fileBar, mainBar>>

readerVars == <<slices, index, inner_index, data0, rpos, lastOp>>

schedVars == <<downloads, simultaneous, srv, fs, fillRes, rt, phase, nextIdx,
               collected, ret, files0>>

vars == <<chunkVars, dlVars, schedVars, readerVars, archVars>>

-----------------------------------------------------------------------------
(* Bounds of the model.                                                   *)

\* SpecChunks: lengths 0..MaxLength, thread counts 0..MaxThreads.
MaxLength == 12
MaxThreads == 5

\* Spec: lists of up to MaxDownloads Downloads, capacities 0..MaxSimultaneous.
MaxDownloads == 3
MaxSimultaneous == 3

\* SpecFill, SpecThreads: lists of up to this many Downloads.
MaxFillDownloads == 2
MaxThreadDownloads == 1

\* SpecPreflight: lists of up to this many Downloads.
MaxPreflightDownloads == 2
MaxPhaseDownloads == 2

\* SpecRead, SpecSeek: readers over up to MaxSlices slices of up to
\* MaxSliceLen bytes, read into buffers of 1..MaxBuf bytes.
MaxSlices == 3
MaxSliceLen == 2
MaxBuf == 2

\* SpecDownload: content lengths 0..DlMaxLength, thread counts 0..DlMaxThreads.
DlMaxLength == 4
DlMaxThreads == 3

-----------------------------------------------------------------------------
(* Option<T>: None is the empty sequence, Some(x) the one-element one.    *)

None == <<>>
Some(x) == <<x>>
IsSome(o) == o # <<>>
Unwrap(o) == o[1]

Min(a, b) == IF a <= b THEN a ELSE b

-----------------------------------------------------------------------------
(* threads.rs: Chunks::new                                                *)

\* A chunk size of floor(length / threads): the last bytes are not covered.
ChunkSizeFloor(threads, length) == length \div threads

\* let size = (length + t) / t;
ChunkSize(threads, length) == (length + threads) \div threads

\* Chunk { buf: Vec::new(), begin, end, length } for t in 0..threads; the
\* sequence index i is t + 1.
ChunksNew(threads, length) ==
    LET size == ChunkSize(threads, length)
    IN  [i \in 1..threads |->
            LET begin == size * (i - 1)
                end   == Min(begin + size, length)
            IN  [buf |-> <<>>, begin |-> begin, end |-> end, length |-> length]]

-----------------------------------------------------------------------------
(* threads.rs: Chunk::download, the Range header                          *)

\* format!("bytes={}-", begin)
FormatOpen(begin) == "bytes=" \o ToString(begin) \o "-"

\* format!("bytes={}-{}", begin, end)
FormatClosed(begin, end) == "bytes=" \o ToString(begin) \o "-" \o ToString(end)

\* match (self.begin, self.end, self.length) { ... }
RangeHeader(chunk) ==
    IF chunk.begin = 0 /\ chunk.end = chunk.length THEN None
    ELSE IF chunk.end = chunk.length THEN Some(FormatOpen(chunk.begin))
    ELSE Some(FormatClosed(chunk.begin, chunk.end))

-----------------------------------------------------------------------------
(* The parts of the state a specification does not use stay as they are.  *)

IdleChunks ==
    /\ nThreads = 0
    /\ resLength = 0
    /\ ranges = <<>>
    /\ cphase = "idle"

IdleDownload ==
    /\ dl = None
    /\ reqs = <<>>
    /\ results = <<>>
    /\ hashed = <<>>
    /\ vres = "no"
    /\ file = <<>>
    /\ saveIdx = 0
    /\ dpc = "idle"
    /\ outcome = "pending"

NoOp == [op |-> "none", arg |-> 0, pre |-> 0, status |-> "none", ret |-> 0, bytes |-> <<>>]

IdleArchive ==
    /\ tarball = <<>>
    /\ extracted = <<>>
    /\ fileBar = "absent"
    /\ mainBar = None

IdleReader ==
    /\ slices = <<>>
    /\ index = 0
    /\ inner_index = 0
    /\ data0 = <<>>
    /\ rpos = 0
    /\ lastOp = NoOp

IdleStart ==
    /\ downloads = <<>>
    /\ simultaneous = 0
    /\ srv = <<>>
    /\ fs = <<>>
    /\ fillRes = <<>>
    /\ rt = <<>>
    /\ phase = "idle"
    /\ nextIdx = 0
    /\ collected = <<>>
    /\ ret = "pending"
    /\ files0 = <<>>

-----------------------------------------------------------------------------
(* SpecChunks: Chunks::new applied to every (threads, length) within the  *)
(* bounds, then each chunk computing its Range header.                    *)

Unsent == "unsent"

InitChunks ==
    /\ nThreads \in 0..MaxThreads
    /\ resLength \in 0..MaxLength
    /\ chunks = <<>>
    /\ ranges = <<>>
    /\ cphase = "new"
    /\ IdleDownload
    /\ IdleStart
    /\ IdleReader
    /\ IdleArchive

\* Chunks::new(threads, length); threads = 0 divides by zero.
NewChunks ==
    /\ cphase = "new"
    /\ IF nThreads = 0
       THEN /\ cphase' = "panic"
            /\ UNCHANGED <<chunks, ranges>>
       ELSE /\ cphase' = "built"
            /\ chunks' = ChunksNew(nThreads, resLength)
            /\ ranges' = [i \in 1..nThreads |-> Unsent]
    /\ UNCHANGED <<nThreads, resLength, dlVars, schedVars, readerVars, archVars>>

\* Chunk::download of chunk i, up to the request being built.
ChunkRange(i) ==
    /\ cphase = "built"
    /\ ranges[i] = Unsent
    /\ ranges' = [ranges EXCEPT ![i] = RangeHeader(chunks[i])]
    /\ UNCHANGED <<nThreads, resLength, chunks, cphase, dlVars, schedVars, readerVars, archVars>>

NextChunks ==
    \/ NewChunks
    \/ \E i \in 1..MaxThreads + 1 : i \in DOMAIN ranges /\ ChunkRange(i)

SpecChunks == InitChunks /\ [][NextChunks]_vars

-----------------------------------------------------------------------------
(* The HTTP server behind Chunk::download: a resource of `length` bytes   *)
(* served with HTTP byte ranges (inclusive at both ends). The byte at     *)
(* offset k is k + 1, so every offset is told apart.                      *)

Resource(length) == [k \in 1..length |-> k]

\* The body of a 416 Range Not Satisfiable response, when it has one.
ErrorPage == <<255>>

\* Offsets a Range header of the model can name.
Offsets == 0..2 * (DlMaxLength + DlMaxThreads + 1)

\* The server's reading of the header's exact bytes: the (first, last) it
\* formats to. An open range has last = -1.
ParseRange(h) ==
    IF \E b \in Offsets : FormatOpen(b) = h
    THEN [first |-> CHOOSE b \in Offsets : FormatOpen(b) = h, last |-> -1]
    ELSE CHOOSE r \in [first : Offsets, last : Offsets] :
            FormatClosed(r.first, r.last) = h

\* The bodies the server may answer a GET with. Chunk::download never looks at
\* the status: whatever body arrives is appended to buf.
ServerBodies(range, length) ==
    IF range = None THEN {Resource(length)}
    ELSE LET r == ParseRange(Unwrap(range))
             last == IF r.last = -1 THEN length - 1 ELSE Min(r.last, length - 1)
         IN  IF r.last # -1 /\ r.last < r.first THEN {Resource(length)}
             ELSE IF r.first >= length THEN {<<>>, ErrorPage}
             ELSE {SubSeq(Resource(length), r.first + 1, last + 1)}

Prefixes(s) == {SubSeq(s, 1, n) : n \in 0..Len(s)}

-----------------------------------------------------------------------------
(* verify.rs: Checksum, over an ideal (collision-free) hash: the hasher's *)
(* state is the bytes it was fed and the digest names them.               *)

\* format!("{:x}", hasher.finalize())
Digest(bytes) == <<"hex", bytes>>

\* A digest altered so that it matches no download of the model.
AlteredDigest(bytes) == <<"hex", bytes \o <<0>>>>

\* A verify that accepts every digest.
ChecksumVerifyAlways(state, contents) == TRUE

\* Checksum::verify: hash == self.contents
ChecksumVerify(state, contents) == Digest(state) = contents

-----------------------------------------------------------------------------
(* decompress.rs: SliceReader, read and seek as functions of its fields   *)

RECURSIVE Concat(_)
Concat(ss) == IF ss = <<>> THEN <<>> ELSE Head(ss) \o Concat(Tail(ss))

RECURSIVE TotalLen(_)
TotalLen(ss) == IF ss = <<>> THEN 0 ELSE Len(Head(ss)) + TotalLen(Tail(ss))

\* <&[u8] as Read>::read(buf) with buf.len() = n: copies the first
\* min(n, len) bytes and advances the slice past them.
SliceRead(slice, n) ==
    LET k == Min(n, Len(slice))
    IN  [bytes |-> SubSeq(slice, 1, k), rest |-> SubSeq(slice, k + 1, Len(slice))]

\* A read that returns the Ok(0) of an empty slice instead of moving on.
RECURSIVE ReaderReadStopsAtEmpty(_, _, _)
ReaderReadStopsAtEmpty(ss, idx, n) ==
    IF idx >= Len(ss) THEN [slices |-> ss, index |-> idx, bytes |-> <<>>]
    ELSE LET r == SliceRead(ss[idx + 1], n)
         IN  [slices |-> [ss EXCEPT ![idx + 1] = r.rest], index |-> idx, bytes |-> r.bytes]

\* SliceReader::read: while self.index < self.slices.len() { match
\* self.slices[self.index].read(buf) { Ok(0) => self.index += 1, r => return r } }
\* (index counts from 0).
RECURSIVE ReaderRead(_, _, _)
ReaderRead(ss, idx, n) ==
    IF idx >= Len(ss) THEN [slices |-> ss, index |-> idx, bytes |-> <<>>]
    ELSE LET r == SliceRead(ss[idx + 1], n)
         IN  IF r.bytes = <<>> THEN ReaderRead(ss, idx + 1, n)
             ELSE [slices |-> [ss EXCEPT ![idx + 1] = r.rest], index |-> idx,
                   bytes |-> r.bytes]

\* The for loop of SliceReader::seek from slice i (from 0) on, `total` bytes
\* before it: the first slice with total + slice.len() > pos.
RECURSIVE Locate(_, _, _, _)
Locate(ss, i, total, pos) ==
    IF i >= Len(ss)
    THEN [status |-> "InvalidInput", ret |-> 0, index |-> 0, inner_index |-> 0]
    ELSE IF total + Len(ss[i + 1]) > pos
    THEN [status |-> "ok", ret |-> pos, index |-> i, inner_index |-> pos - total]
    ELSE Locate(ss, i + 1, total + Len(ss[i + 1]), pos)

\* A position past every slice, as a wrapped subtraction or the cast of a
\* negative offset gives it.
Huge == 1000000

\* let pos = match seek { .. }: the positions the usize arithmetic can give,
\* or "panic". `offset as usize` of a negative i64 is 2^64 - |offset|: the
\* subtraction from the sum then underflows, the addition to index +
\* inner_index overflows when that is at least |offset|; either panics under
\* overflow checks and wraps without them.
SeekPos(ss, idx, inner, kind, offset) ==
    CASE kind = "Start" -> {[panic |-> FALSE, pos |-> offset]}
      [] kind = "End" ->
            IF 0 <= offset /\ offset <= TotalLen(ss)
            THEN {[panic |-> FALSE, pos |-> TotalLen(ss) - offset]}
            ELSE {[panic |-> TRUE, pos |-> 0],
                  [panic |-> FALSE, pos |-> IF offset < 0 THEN TotalLen(ss) - offset ELSE Huge]}
      [] kind = "Current" ->
            IF offset >= 0 THEN {[panic |-> FALSE, pos |-> idx + inner + offset]}
            ELSE IF idx + inner >= -offset
            THEN {[panic |-> TRUE, pos |-> 0], [panic |-> FALSE, pos |-> idx + inner + offset]}
            ELSE {[panic |-> FALSE, pos |-> Huge]}

-----------------------------------------------------------------------------
(* threads.rs: Chunks::download (the sort), Chunks::verify, Chunk::save   *)

RECURSIVE InsertByBegin(_, _)
InsertByBegin(c, s) ==
    IF s = <<>> THEN <<c>>
    ELSE IF c.begin <= Head(s).begin THEN <<c>> \o s
    ELSE <<Head(s)>> \o InsertByBegin(c, Tail(s))

\* self.chunks.sort_by_key(|chunk| chunk.begin): a stable sort.
RECURSIVE SortByBegin(_)
SortByBegin(s) ==
    IF s = <<>> THEN <<>> ELSE InsertByBegin(Head(s), SortByBegin(Tail(s)))

\* &chunk.buf[0..chunk.end - chunk.begin]
HashSlice(c) == SubSeq(c.buf, 1, c.end - c.begin)

\* 0..chunk.end as usize - chunk.begin as usize underflows when end < begin
\* (a panic with overflow checks, a huge range and so a slice panic without),
\* and the slice panics when buf is shorter than the range.
SlicePanics(c) == c.end < c.begin \/ c.end - c.begin > Len(c.buf)

\* The for_each of Chunks::verify from chunk i on: the bytes fed to the hasher,
\* and whether a chunk's slice panicked.
RECURSIVE HashChunks(_, _, _)
HashChunks(cs, i, acc) ==
    IF i > Len(cs) THEN [hashed |-> acc, panic |-> FALSE]
    ELSE IF SlicePanics(cs[i]) THEN [hashed |-> acc, panic |-> TRUE]
    ELSE HashChunks(cs, i + 1, acc \o HashSlice(cs[i]))

\* output.seek(SeekFrom::Start(pos)); output.write_all(data): bytes past the
\* old end of the file are zero-filled, and writing nothing changes nothing.
WriteAt(f, pos, data) ==
    IF data = <<>> THEN f
    ELSE LET n == IF Len(f) >= pos + Len(data) THEN Len(f) ELSE pos + Len(data)
         IN  [k \in 1..n |->
                 IF k > pos /\ k <= pos + Len(data) THEN data[k - pos]
                 ELSE IF k <= Len(f) THEN f[k]
                 ELSE 0]

-----------------------------------------------------------------------------
(* threads.rs: Chunks::save_archive; decompress.rs: ArchiveFormat::decompress *)

\* pub enum ArchiveFormat
Formats == {"Tar", "TarBz2", "TarGz", "TarXz", "TarZst", "Zip", "Xz", "Gz", "Bz2", "Zst"}

\* self.chunks.iter().map(|chunk| &chunk.buf[0..end]).collect()
ArchiveSlices(cs) == [i \in DOMAIN cs |-> HashSlice(cs[i])]

\* matches!(self, Self::Tar | Self::TarBz2 | Self::TarGz | Self::TarXz | Self::TarZst)
IsTarball(format) == format \in {"Tar", "TarBz2", "TarGz", "TarXz", "TarZst"}

\* match self { Bz2 | TarBz2 => .., Gz | TarGz => .., Xz | TarXz => ..,
\* Zst | TarZst => .., Zip => .., _ => () }: the arms that run std::io::copy.
HasCopyArm(format) == format \notin {"Tar", "Zip"}

\* What a reader (std::io::copy, a decoder) gets from the SliceReader reading
\* to the end through a buffer of MaxBuf bytes.
RECURSIVE ReadAll(_, _, _)
ReadAll(ss, idx, acc) ==
    LET r == ReaderRead(ss, idx, MaxBuf)
    IN  IF r.bytes = <<>> THEN acc ELSE ReadAll(r.slices, r.index, acc \o r.bytes)

\* A decoder over the stream: a stream that starts with the codec's magic
\* (byte 1, which the resources of the model start with) decodes to what
\* follows it, any other stream is an error; of an empty stream some decoders
\* make an empty output and some an error.
Decoded(stream) ==
    IF stream = <<>> THEN {[ok |-> TRUE, bytes |-> <<>>], [ok |-> FALSE, bytes |-> <<>>]}
    ELSE IF Head(stream) = 1 THEN {[ok |-> TRUE, bytes |-> Tail(stream)]}
    ELSE {[ok |-> FALSE, bytes |-> <<>>]}

\* ArchiveFormat::decompress over the slices ss with the output file f: the
\* Result, the tarball buffer, the output file and what reached the
\* extraction directory (the unpacked buffer stands for its entries).
Decompress(format, ss, f) ==
    LET stream == ReadAll(ss, 0, <<>>)
        Failed(buf) == [res |-> "ArchiveError", tarball |-> buf, file |-> f, extracted |-> <<>>]
        Unpacked(buf) ==
            {[res |-> "Ok", tarball |-> buf, file |-> f, extracted |-> buf], Failed(buf)}
    IN  IF format = "Zip"
        THEN {[res |-> "Ok", tarball |-> <<>>, file |-> f, extracted |-> stream], Failed(<<>>)}
        ELSE IF ~HasCopyArm(format) THEN Unpacked(<<>>)
        ELSE UNION {IF ~c.ok THEN {Failed(<<>>)}
                    ELSE IF IsTarball(format) THEN Unpacked(c.bytes)
                    ELSE {[res |-> "Ok", tarball |-> <<>>, file |-> WriteAt(f, 0, c.bytes),
                           extracted |-> <<>>]} :
                    c \in Decoded(stream)}

-----------------------------------------------------------------------------
(* SpecDownload: Download::spawn for one Download.                        *)

\* What a caller-supplied output file may already hold.
StaleFile == [k \in 1..DlMaxLength + 2 |-> 90]

\* The Downloads spawn may be called on: preflight has set content_length,
\* finalize_threads preferred_threads, fill_output the output file.
DownloadConfigs ==
    {d \in [length   : 0..DlMaxLength,
            threads  : 0..DlMaxThreads,
            checksum : {"none", "good", "bad"},
            supplied : BOOLEAN,
            stale    : BOOLEAN,
            debugLog : BOOLEAN,
            archive  : {None},
            fileBar  : {FALSE},
            mainBar  : {FALSE}] : d.stale => d.supplied}
    \cup
    [length   : 0..DlMaxLength,
     threads  : 0..DlMaxThreads,
     checksum : {"none", "good", "bad"},
     supplied : {FALSE},
     stale    : {FALSE},
     debugLog : {FALSE},
     archive  : {None} \cup {Some(f) : f \in Formats},
     fileBar  : BOOLEAN,
     mainBar  : BOOLEAN]

\* The output file as spawn finds it: File::create_new leaves it empty, a
\* caller-supplied file holds whatever the caller left in it.
InitialFile(d) == IF d.stale THEN StaleFile ELSE <<>>

\* Download.checksum: Option<Checksum>
ChecksumOf(d) ==
    IF d.checksum = "none" THEN None
    ELSE IF d.checksum = "good" THEN Some(Digest(Resource(d.length)))
    ELSE Some(AlteredDigest(Resource(d.length)))

InitDownload ==
    /\ dl \in DownloadConfigs
    /\ file = InitialFile(dl)
    /\ chunks = <<>>
    /\ reqs = <<>>
    /\ results = <<>>
    /\ hashed = <<>>
    /\ vres = "no"
    /\ saveIdx = 0
    /\ dpc = "spawn"
    /\ outcome = "pending"
    /\ tarball = <<>>
    /\ extracted = <<>>
    /\ fileBar = (IF dl.fileBar THEN "running" ELSE "absent")
    /\ mainBar = (IF dl.mainBar THEN Some(0) ELSE None)
    /\ IdleChunks
    /\ IdleStart
    /\ IdleReader

\* spawn up to the first suspension: Chunks::new, then Chunks::download polls
\* every chunk future once, which sends its GET.
SpawnStart ==
    /\ dpc = "spawn"
    /\ IF dl.threads = 0
       THEN /\ dpc' = "done"
            /\ outcome' = "panic"
            /\ UNCHANGED <<chunks, reqs, results>>
       ELSE /\ chunks' = ChunksNew(dl.threads, dl.length)
            /\ reqs' = [i \in 1..dl.threads |-> RangeHeader(chunks'[i])]
            /\ results' = [i \in 1..dl.threads |-> "pending"]
            /\ dpc' = "downloading"
            /\ UNCHANGED outcome
    /\ UNCHANGED <<dl, hashed, vres, file, saveIdx, nThreads, resLength, ranges, cphase,
                   schedVars, readerVars, archVars>>

\* Chunk::download of chunk i runs to its end: the body is appended to buf,
\* or the send fails (RequestError), or the stream breaks (ReqwestError) after
\* part of the body.
ChunkFinish(i) ==
    /\ dpc = "downloading"
    /\ results[i] = "pending"
    /\ \E body \in ServerBodies(reqs[i], dl.length) :
          \/ /\ chunks' = [chunks EXCEPT ![i].buf = body]
             /\ results' = [results EXCEPT ![i] = "Ok"]
          \/ /\ results' = [results EXCEPT ![i] = "RequestError"]
             /\ UNCHANGED chunks
          \/ \E part \in Prefixes(body) \ {body} :
                /\ chunks' = [chunks EXCEPT ![i].buf = part]
                /\ results' = [results EXCEPT ![i] = "ReqwestError"]
    /\ UNCHANGED <<dl, reqs, hashed, vres, file, saveIdx, dpc, outcome,
                   nThreads, resLength, ranges, cphase,
                   schedVars, readerVars, archVars>>

\* A collect that keeps the error of the last failing chunk.
LastError(res) ==
    LET bad == {i \in DOMAIN res : res[i] # "Ok"}
    IN  IF bad = {} THEN "Ok"
        ELSE res[CHOOSE i \in bad : \A j \in bad : j <= i]

\* join_all(..).collect::<Result<..>>()?: the first error in chunk order.
FirstError(res) ==
    LET bad == {i \in DOMAIN res : res[i] # "Ok"}
    IN  IF bad = {} THEN "Ok"
        ELSE res[CHOOSE i \in bad : \A j \in bad : i <= j]

\* Chunks::download after join_all: propagate the first error, else sort.
DownloadJoin ==
    /\ dpc = "downloading"
    /\ \A i \in DOMAIN results : results[i] # "pending"
    /\ IF FirstError(results) # "Ok"
       THEN /\ outcome' = FirstError(results)
            /\ dpc' = "done"
            /\ UNCHANGED <<chunks, fileBar>>
       ELSE /\ chunks' = SortByBegin(chunks)
            /\ fileBar' = (IF fileBar = "absent" THEN fileBar ELSE "finished")
            /\ dpc' = "downloaded"
            /\ UNCHANGED outcome
    /\ UNCHANGED <<dl, reqs, results, hashed, vres, file, saveIdx,
                   nThreads, resLength, ranges, cphase,
                   schedVars, readerVars, tarball, extracted, mainBar>>

\* if let Some(archive) = self.decompress { save_archive } else { save }
AfterVerify(d) == IF d.archive = None THEN "saving" ELSE "unpacking"

\* A verify whose Result is dropped: spawn goes on to save.
MismatchIgnored(d) == [dpc |-> AfterVerify(d), outcome |-> "pending"]

\* chunks.verify(checksum)?: Err(InvalidChecksum) ends spawn.
OnMismatch(d) == [dpc |-> "done", outcome |-> "InvalidChecksum"]

\* if let Some(checksum) = self.checksum { chunks.verify(checksum)?; }
Verify ==
    /\ dpc = "downloaded"
    /\ IF ChecksumOf(dl) = None
       THEN /\ dpc' = AfterVerify(dl)
            /\ saveIdx' = (IF dpc' = "saving" THEN 1 ELSE saveIdx)
            /\ UNCHANGED <<hashed, vres, outcome>>
       ELSE LET r == HashChunks(chunks, 1, <<>>)
            IN  /\ hashed' = r.hashed
                /\ IF r.panic
                   THEN /\ vres' = "panic"
                        /\ outcome' = "panic"
                        /\ dpc' = "done"
                        /\ UNCHANGED saveIdx
                   ELSE IF ChecksumVerify(r.hashed, Unwrap(ChecksumOf(dl)))
                   THEN /\ vres' = "ok"
                        /\ dpc' = AfterVerify(dl)
                        /\ saveIdx' = (IF dpc' = "saving" THEN 1 ELSE saveIdx)
                        /\ UNCHANGED outcome
                   ELSE /\ vres' = "mismatch"
                        /\ outcome' = OnMismatch(dl).outcome
                        /\ dpc' = OnMismatch(dl).dpc
                        /\ saveIdx' = (IF dpc' = "saving" THEN 1 ELSE saveIdx)
    /\ UNCHANGED <<dl, chunks, reqs, results, file, nThreads, resLength, ranges, cphase,
                   schedVars, readerVars, archVars>>

\* if let Some(main_bar) = main_bar { main_bar.inc(1); } before Ok(()).
IncOnOk(bar, res) ==
    IF res = "Ok" /\ bar # None THEN Some(Unwrap(bar) + 1) ELSE bar

\* One turn of the loop of Chunks::save: try_clone, then Chunk::save, whose
\* debug log line computes end - begin when the debug level is enabled.
SaveChunk ==
    /\ dpc = "saving"
    /\ saveIdx <= Len(chunks)
    /\ LET c == chunks[saveIdx]
       IN  \/ /\ outcome' = "FileError"
              /\ dpc' = "done"
              /\ UNCHANGED <<file, saveIdx>>
           \/ /\ dl.debugLog /\ c.end < c.begin
              /\ outcome' = "panic"
              /\ dpc' = "done"
              /\ UNCHANGED <<file, saveIdx>>
           \/ /\ ~(dl.debugLog /\ c.end < c.begin)
              /\ file' = WriteAt(file, c.begin, c.buf)
              /\ saveIdx' = saveIdx + 1
              /\ UNCHANGED <<dpc, outcome>>
    /\ UNCHANGED <<dl, chunks, reqs, results, hashed, vres,
                   nThreads, resLength, ranges, cphase,
                   schedVars, readerVars, archVars>>

\* output.sync_all() at the end of Chunks::save, then spawn returns Ok(()).
SaveSync ==
    /\ dpc = "saving"
    /\ saveIdx > Len(chunks)
    /\ outcome' \in {"Ok", "FileError"}
    /\ mainBar' = IncOnOk(mainBar, outcome')
    /\ dpc' = "done"
    /\ UNCHANGED <<dl, chunks, reqs, results, hashed, vres, file, saveIdx,
                   nThreads, resLength, ranges, cphase,
                   schedVars, readerVars, tarball, extracted, fileBar>>

\* chunks.save_archive(self.directory, self.output.unwrap(), archive)?, then
\* the increment of the outer bar and Ok(()).
SaveArchive ==
    /\ dpc = "unpacking"
    /\ IF \E i \in DOMAIN chunks : SlicePanics(chunks[i])
       THEN /\ outcome' = "panic"
            /\ UNCHANGED <<file, tarball, extracted, mainBar>>
       ELSE \E r \in Decompress(Unwrap(dl.archive), ArchiveSlices(chunks), file) :
               /\ outcome' = r.res
               /\ file' = r.file
               /\ tarball' = r.tarball
               /\ extracted' = r.extracted
               /\ mainBar' = IncOnOk(mainBar, r.res)
    /\ dpc' = "done"
    /\ UNCHANGED <<dl, chunks, reqs, results, hashed, vres, saveIdx,
                   nThreads, resLength, ranges, cphase,
                   schedVars, readerVars, fileBar>>

NextDownload ==
    \/ SpawnStart
    \/ \E i \in 1..DlMaxThreads + 1 : i \in DOMAIN results /\ ChunkFinish(i)
    \/ DownloadJoin
    \/ Verify
    \/ SaveChunk
    \/ SaveSync
    \/ SaveArchive

SpecDownload == InitDownload /\ [][NextDownload]_vars

-----------------------------------------------------------------------------
(* downloader.rs: Download::fill_output                                   *)
(* File names are sequences of characters; a path is <<directory, name>>. *)

\* A matches! that forgets TarZst.
IsMultiEntryNoTarZst(format) == format \in {"Zip", "Tar", "TarBz2", "TarGz", "TarXz"}

\* matches!(archive_format, Zip | Tar | TarBz2 | TarGz | TarXz | TarZst)
IsMultiEntry(format) == format \in {"Zip", "Tar", "TarBz2", "TarGz", "TarXz", "TarZst"}

\* let archive_ext = match archive_format { .. }
ArchiveExt(format) ==
    CASE format = "Bz2" -> <<"b", "z", "2">>
      [] format = "Gz"  -> <<"g", "z">>
      [] format = "Xz"  -> <<"x", "z">>
      [] format = "Zst" -> <<"z", "s", "t">>
      [] OTHER          -> <<>>

\* str::ends_with
EndsWith(name, ext) ==
    /\ Len(ext) <= Len(name)
    /\ SubSeq(name, Len(name) - Len(ext) + 1, Len(name)) = ext

\* .unwrap_or("download")
DefaultName == <<"d", "o", "w", "n", "l", "o", "a", "d">>

\* url.path_segments().and_then(last).and_then(non-empty).unwrap_or("download");
\* path_segments() is None for a URL that cannot be a base.
UrlFileName(url) ==
    IF url.segs = None THEN DefaultName
    ELSE LET segs == Unwrap(url.segs)
         IN  IF segs[Len(segs)] = <<>> THEN DefaultName ELSE segs[Len(segs)]

\* static CURRENT_DIR
CurrentDir == "cwd"

\* The open file behind a caller-supplied handle is outside the named paths.
SuppliedHandle == [path |-> <<"handle">>]

\* The name fill_output starts from: the user's, else the URL's.
EffectiveName(d) ==
    IF d.filename # None THEN Unwrap(d.filename) ELSE UrlFileName(d.url)

\* if let Some(archive_format) = &self.decompress { .. ends_with(archive_ext) }
Strips(d) ==
    /\ d.decompress # None
    /\ EndsWith(EffectiveName(d), ArchiveExt(Unwrap(d.decompress)))

\* filename.len() - archive_ext.len() - 1
StripCut(d) == Len(EffectiveName(d)) - Len(ArchiveExt(Unwrap(d.decompress))) - 1

\* The slice index underflows: a panic (with overflow checks in the
\* subtraction, without them in the slice).
StripPanics(d) == Strips(d) /\ StripCut(d) < 0

\* &filename[..filename.len() - archive_ext.len() - 1]
DestName(d) ==
    IF Strips(d) THEN SubSeq(EffectiveName(d), 1, StripCut(d)) ELSE EffectiveName(d)

\* dir.join(filename)
DestPath(d) ==
    <<IF d.directory # None THEN Unwrap(d.directory) ELSE CurrentDir, DestName(d)>>

\* matches!(..) && self.filename.is_some()
Rejected(d) ==
    /\ d.decompress # None
    /\ IsMultiEntry(Unwrap(d.decompress))
    /\ d.filename # None

\* A File::create that truncates a file that exists.
CreateFailsOnlyOnDir(path, files) == path[2] = <<>>

\* File::create_new(path) fails when the path exists; dir.join("") is the
\* directory itself.
CreateNewFails(path, files) == path[2] = <<>> \/ path \in DOMAIN files

\* fill_output for Download d over the file system `files` (path -> contents
\* tag): its Result ("panic" when the slice index underflows), the Download
\* after it, and the file system after it.
FillOutput(d, files) ==
    IF d.output # None THEN [res |-> "Ok", d |-> d, fs |-> files]
    ELSE IF Rejected(d) THEN [res |-> "UnsupportedFileName", d |-> d, fs |-> files]
    ELSE IF StripPanics(d) THEN [res |-> "panic", d |-> d, fs |-> files]
    ELSE IF CreateNewFails(DestPath(d), files)
    THEN [res |-> "FileError", d |-> d, fs |-> files]
    ELSE [res |-> "Ok",
          d   |-> [d EXCEPT !.output = Some([path |-> DestPath(d)])],
          fs  |-> [p \in DOMAIN files \cup {DestPath(d)} |->
                      IF p = DestPath(d) THEN "empty" ELSE files[p]]]

\* fill_download_files: join_all polls the fill_output futures in list order
\* and each runs to its end (it never suspends); a panic stops the rest.
RECURSIVE FillAll(_, _, _, _)
FillAll(ds, i, files, res) ==
    IF i > Len(ds) THEN [ds |-> ds, fs |-> files, res |-> res, panic |-> FALSE]
    ELSE LET r == FillOutput(ds[i], files)
         IN  IF r.res = "panic"
             THEN [ds |-> ds, fs |-> files, res |-> Append(res, "panic"), panic |-> TRUE]
             ELSE FillAll([ds EXCEPT ![i] = r.d], i + 1, r.fs, Append(res, r.res))

\* A collect that yields the last Err of the list.
LastErr(res) ==
    LET bad == {i \in DOMAIN res : res[i] # "Ok"}
    IN  IF bad = {} THEN "Ok"
        ELSE res[CHOOSE i \in bad : \A j \in bad : j <= i]

\* .into_iter().collect::<Result<Vec<_>, DownloadError>>(): the first Err in
\* list order, or "Ok".
FirstErr(res) ==
    LET bad == {i \in DOMAIN res : res[i] # "Ok"}
    IN  IF bad = {} THEN "Ok"
        ELSE res[CHOOSE i \in bad : \A j \in bad : i <= j]

-----------------------------------------------------------------------------
(* downloader.rs: choose_threads                                          *)

SINGLETHREADED_URLS == {"cdimage.ubuntu.com", "dl.sourceforge.net"}

\* Thresholds compared with > instead of >=.
ThreadsForLengthStrict(length) ==
    IF length > 2000000000 THEN 5
    ELSE IF length > 1000000000 THEN 4
    ELSE IF length > 250000000 THEN 3
    ELSE IF length > 100000000 THEN 2
    ELSE 1

\* match length { 2_000_000_000.. => 5, 1_000_000_000.. => 4, .. }
ThreadsForLength(length) ==
    IF length >= 2000000000 THEN 5
    ELSE IF length >= 1000000000 THEN 4
    ELSE IF length >= 250000000 THEN 3
    ELSE IF length >= 100000000 THEN 2
    ELSE 1

\* url.host_str() is None for a URL without a host.
ChooseThreads(length, url) ==
    IF url.host # None /\ Unwrap(url.host) \in SINGLETHREADED_URLS THEN Some(1)
    ELSE IF length = None THEN None
    ELSE Some(ThreadsForLength(Unwrap(length)))

\* finalize_threads for one Download.
FinalizeThreads(d) ==
    IF d.preferred_threads = None
    THEN [d EXCEPT !.preferred_threads = ChooseThreads(d.content_length, d.url)]
    ELSE d

-----------------------------------------------------------------------------
(* downloader.rs: Download::spawn as start_downloads sees it              *)

\* Chunks::new(threads, length) has a chunk whose end - begin underflows.
HasInvertedChunk(threads, length) ==
    LET cs == ChunksNew(threads, length)
    IN  \E i \in DOMAIN cs : cs[i].end < cs[i].begin

\* What a started spawn can end with: a transfer error, or, with every chunk
\* transferred, the result of verify and then of save or save_archive.
SpawnOutcomes(d) ==
    LET inverted == HasInvertedChunk(Unwrap(d.preferred_threads), Unwrap(d.content_length))
    IN  {"RequestError", "ReqwestError"}
        \cup (IF d.checksum # None /\ inverted THEN {"panic"}
              ELSE IF d.checksum = Some("bad") THEN {"InvalidChecksum"}
              ELSE IF d.decompress # None
              THEN (IF inverted THEN {"panic"} ELSE {"Ok", "ArchiveError"})
              ELSE {"Ok", "FileError"} \cup (IF inverted THEN {"panic"} ELSE {}))

-----------------------------------------------------------------------------
(* downloader.rs: Downloader::start_downloads                             *)

Idx == DOMAIN downloads

Active == {i \in Idx : rt[i].spawn = "active"}

\* client.get(url) with the Download's headers, as fill_lengths and
\* Chunk::download build it (the Range header apart).
Request(d) == [url |-> d.url, headers |-> d.headers]

\* Per Download: the state of its preflight, the number of ranged GETs sent,
\* the state of its spawn, and the requests sent for it.
InitRt ==
    [pre |-> "unsent", ranged |-> 0, spawn |-> "idle", preReq |-> None, rangedReq |-> None]

\* The state of start_downloads before its first step, for a Downloader
\* holding the Downloads ds.
StartState(ds) ==
    /\ downloads = ds
    /\ rt = [i \in DOMAIN ds |-> InitRt]
    /\ fillRes = <<>>
    /\ phase = "start"
    /\ nextIdx = 1
    /\ collected = <<>>
    /\ ret = "pending"

\* self.fill_download_files().await?
FillDownloadFiles ==
    /\ phase = "start"
    /\ LET r == FillAll(downloads, 1, fs, <<>>)
       IN  /\ downloads' = r.ds
           /\ fs' = r.fs
           /\ fillRes' = r.res
           /\ IF r.panic
              THEN phase' = "panicked" /\ ret' = "panic"
              ELSE IF FirstErr(r.res) # "Ok"
              THEN phase' = "returned" /\ ret' = FirstErr(r.res)
              ELSE phase' = "filled" /\ UNCHANGED ret
    /\ UNCHANGED <<srv, simultaneous, rt, nextIdx, collected>>
    /\ UNCHANGED <<chunkVars, dlVars, files0, readerVars, archVars>>

\* fill_lengths, first poll of join_all: every preflight GET is sent.
PreflightSend ==
    /\ phase = "filled"
    /\ rt' = [i \in Idx |-> [rt[i] EXCEPT !.pre = "sent",
                                          !.preReq = Some(Request(downloads[i]))]]
    /\ phase' = "preflight"
    /\ UNCHANGED <<downloads, srv, simultaneous, fs, fillRes, nextIdx, collected, ret>>
    /\ UNCHANGED <<chunkVars, dlVars, files0, readerVars, archVars>>

\* The response to the preflight of Download i arrives (or its send fails).
PreflightRespond(i) ==
    /\ phase = "preflight"
    /\ rt[i].pre = "sent"
    /\ rt' = [rt EXCEPT ![i].pre = "answered"]
    /\ UNCHANGED <<downloads, srv, simultaneous, fs, fillRes, phase, nextIdx, collected, ret>>
    /\ UNCHANGED <<chunkVars, dlVars, files0, readerVars, archVars>>

\* The Result of the closure of fill_lengths for one response.
LengthResult(resp) ==
    IF resp.status # "ok" THEN "RequestError"
    ELSE IF resp.length = None THEN "ContentLength"
    ELSE "Ok"

\* A fill_lengths that records the length and keeps the URL it was given.
RECURSIVE RecordLengthsKeepUrl(_, _)
RecordLengthsKeepUrl(ds, i) ==
    IF i > Len(ds) THEN [ds |-> ds, res |-> "Ok"]
    ELSE IF LengthResult(srv[i]) # "Ok" THEN [ds |-> ds, res |-> LengthResult(srv[i])]
    ELSE RecordLengthsKeepUrl([ds EXCEPT ![i].content_length = srv[i].length], i + 1)

\* The zip().map().collect() of fill_lengths from Download i on: Downloads are
\* updated in list order up to the first error.
RECURSIVE RecordLengths(_, _)
RecordLengths(ds, i) ==
    IF i > Len(ds) THEN [ds |-> ds, res |-> "Ok"]
    ELSE IF LengthResult(srv[i]) # "Ok" THEN [ds |-> ds, res |-> LengthResult(srv[i])]
    ELSE RecordLengths([ds EXCEPT ![i].content_length = srv[i].length,
                                  ![i].url = srv[i].url], i + 1)

\* fill_lengths after join_all.
PreflightJoin ==
    /\ phase = "preflight"
    /\ \A i \in Idx : rt[i].pre = "answered"
    /\ LET r == RecordLengths(downloads, 1)
       IN  /\ downloads' = r.ds
           /\ IF r.res # "Ok"
              THEN phase' = "returned" /\ ret' = r.res
              ELSE phase' = "lengths" /\ UNCHANGED ret
    /\ UNCHANGED <<srv, simultaneous, fs, fillRes, rt, nextIdx, collected>>
    /\ UNCHANGED <<chunkVars, dlVars, files0, readerVars, archVars>>

\* self.finalize_threads()
FinalizeAllThreads ==
    /\ phase = "lengths"
    /\ downloads' = [i \in Idx |-> FinalizeThreads(downloads[i])]
    /\ phase' = "threads"
    /\ UNCHANGED <<srv, simultaneous, fs, fillRes, rt, nextIdx, collected, ret>>
    /\ UNCHANGED <<chunkVars, dlVars, files0, readerVars, archVars>>

\* A queue that takes one future more than its capacity.
PulledOneMore(next, active) ==
    {i \in Idx : next <= i /\ i <= next + (simultaneous - active)}

\* The Downloads buffer_unordered pulls from the stream when `active` futures
\* are in progress and the stream stands at `next`: it fills its queue up to
\* `simultaneous`.
Pulled(next, active) ==
    {i \in Idx : next <= i /\ i < next + (simultaneous - active)}

\* The first poll of the futures in `pulled`: each runs Chunks::new and sends
\* its ranged GETs; a thread count of 0 divides by zero.
Started(pulled) ==
    [i \in Idx |->
        IF i \in pulled
        THEN IF Unwrap(downloads[i].preferred_threads) = 0
             THEN [rt[i] EXCEPT !.spawn = "panic"]
             ELSE [rt[i] EXCEPT !.spawn = "active",
                                !.ranged = Unwrap(downloads[i].preferred_threads),
                                !.rangedReq = Some(Request(downloads[i]))]
        ELSE rt[i]]

\* stream::iter(downloads).buffer_unordered(self.simultaneous), first poll.
DispatchStart ==
    /\ phase = "threads"
    /\ LET pulled == Pulled(1, 0)
       IN  /\ rt' = Started(pulled)
           /\ nextIdx' = 1 + Cardinality(pulled)
           /\ IF \E i \in pulled : rt'[i].spawn = "panic"
              THEN phase' = "panicked" /\ ret' = "panic"
              ELSE phase' = "dispatch" /\ UNCHANGED ret
    /\ UNCHANGED <<downloads, srv, simultaneous, fs, fillRes, collected>>
    /\ UNCHANGED <<chunkVars, dlVars, files0, readerVars, archVars>>

\* The spawn of Download i completes; buffer_unordered yields its Result to
\* collect and, polled again, refills its queue from the stream.
SpawnEnd(i) ==
    /\ phase = "dispatch"
    /\ rt[i].spawn = "active"
    /\ \E out \in SpawnOutcomes(downloads[i]) :
          IF out = "panic"
          THEN /\ rt' = [rt EXCEPT ![i].spawn = "panic"]
               /\ phase' = "panicked"
               /\ ret' = "panic"
               /\ UNCHANGED <<fs, nextIdx, collected>>
          ELSE LET pulled == Pulled(nextIdx, Cardinality(Active) - 1)
                   rt1    == Started(pulled)
               IN  /\ rt' = [rt1 EXCEPT ![i].spawn = out]
                   /\ nextIdx' = nextIdx + Cardinality(pulled)
                   /\ collected' = Append(collected, out)
                   /\ fs' = IF /\ out = "Ok"
                               /\ downloads[i].output # Some(SuppliedHandle)
                               /\ \/ downloads[i].decompress = None
                                  \/ ~IsMultiEntry(Unwrap(downloads[i].decompress))
                            THEN [fs EXCEPT ![Unwrap(downloads[i].output).path] = "written"]
                            ELSE fs
                   /\ IF \E j \in pulled : rt1[j].spawn = "panic"
                      THEN phase' = "panicked" /\ ret' = "panic"
                      ELSE UNCHANGED <<phase, ret>>
    /\ UNCHANGED <<downloads, srv, simultaneous, fillRes>>
    /\ UNCHANGED <<chunkVars, dlVars, files0, readerVars, archVars>>

\* A collect that ends when the stream is exhausted, with futures still in
\* progress.
ReturnEarly ==
    /\ phase = "dispatch"
    /\ nextIdx > Len(downloads)
    /\ simultaneous > 0
    /\ ret' = FirstErr(collected)
    /\ phase' = "returned"
    /\ UNCHANGED <<downloads, srv, simultaneous, fs, fillRes, rt, nextIdx, collected>>
    /\ UNCHANGED <<chunkVars, dlVars, files0, readerVars, archVars>>

\* The stream is exhausted and no future is in progress: collect ends, and
\* .into_iter().collect::<Result<..>>()? returns the first Err in
\* completion order, or Ok(()).
Return ==
    /\ phase = "dispatch"
    /\ nextIdx > Len(downloads)
    /\ Active = {}
    \* with a capacity of 0 the stream is never polled, so never found done
    /\ simultaneous > 0
    /\ ret' = FirstErr(collected)
    /\ phase' = "returned"
    /\ UNCHANGED <<downloads, srv, simultaneous, fs, fillRes, rt, nextIdx, collected>>
    /\ UNCHANGED <<chunkVars, dlVars, files0, readerVars, archVars>>

Next ==
    \/ FillDownloadFiles
    \/ PreflightSend
    \/ \E i \in Idx : PreflightRespond(i)
    \/ PreflightJoin
    \/ FinalizeAllThreads
    \/ DispatchStart
    \/ \E i \in Idx : SpawnEnd(i)
    \/ Return


-----------------------------------------------------------------------------
(* The Downloaders start_downloads is run on.                             *)

Url(host, segs) == [host |-> host, segs |-> segs]

\* Download::new_from_url
NewFromUrl(url) ==
    [url |-> url, output |-> None, directory |-> None, filename |-> None,
     headers |-> None, checksum |-> None, preferred_threads |-> None, content_length |-> None,
     decompress |-> None]

\* A preflight response: its status, content_length() and url().
Response(status, length, url) == [status |-> status, length |-> length, url |-> url]

\* A Download together with the server's answer to its preflight.
Case(d, resp) == [d |-> d, srv |-> resp]

\* Lists of 1..max cases with one of `subjects` at some position and `others`
\* at the other positions.
ListsAround(subjects, others, max) ==
    UNION {UNION {{[i \in 1..n |-> IF i = k THEN s ELSE o[i]] :
                      s \in subjects, o \in [1..n -> others]} :
                  k \in 1..n} :
           n \in 1..max}

\* start_downloads is called on a Downloader holding `cases`, with
\* `simultaneous` = sim, over the file system files.
Started0(cases, sim, files) ==
    /\ StartState([i \in DOMAIN cases |-> cases[i].d])
    /\ srv = [i \in DOMAIN cases |-> cases[i].srv]
    /\ simultaneous = sim
    /\ fs = files
    /\ files0 = files
    /\ IdleReader
    /\ IdleArchive
    /\ IdleChunks
    /\ chunks = <<>>
    /\ IdleDownload

\* ---- Spec: scheduling. Download i fetches http://host/f<i>.
SchedUrl(i) == Url(Some("host"), Some(<<<<"f", ToString(i)>>>>))

\* With or without a checksum (one that will not match); the preflight is
\* answered with a content length of 3, or its send fails; without
\* with_threads, or with with_threads(0), or with with_threads(3), whose
\* third chunk of a 3-byte resource is [4, 3).
SchedChoices ==
    [checksum : {None, Some("bad")}, status : {"ok", "fail"}, threads : {None}]
    \cup {[checksum |-> None, status |-> "ok", threads |-> Some(0)],
          [checksum |-> Some("bad"), status |-> "ok", threads |-> Some(3)]}

SchedCase(i, c) ==
    Case([NewFromUrl(SchedUrl(i)) EXCEPT !.checksum = c.checksum,
                                         !.preferred_threads = c.threads],
         Response(c.status, IF c.status = "ok" THEN Some(3) ELSE None, SchedUrl(i)))

Init ==
    \E n \in 0..MaxDownloads :
        \E choice \in [1..n -> SchedChoices] :
            \E sim \in 0..MaxSimultaneous :
                Started0([i \in 1..n |-> SchedCase(i, choice[i])], sim, <<>>)

Spec == Init /\ [][Next]_vars

\* ---- SpecFill: destinations. Every Download fetches http://host/a.gz.
NameAGz == <<"a", ".", "g", "z">>
NameOut == <<"o">>

FillUrl == Url(Some("host"), Some(<<NameAGz>>))

FillResponse == Response("ok", Some(3), FillUrl)

\* Every archive format or none, with or without a file name, with or without
\* a caller-supplied output file.
FillSubjects ==
    {Case([NewFromUrl(FillUrl) EXCEPT !.decompress = f, !.filename = name, !.output = out],
          FillResponse) :
        f \in {None} \cup {Some(x) : x \in Formats},
        name \in {None, Some(NameOut)},
        out \in {None, Some(SuppliedHandle)}}

FillOthers ==
    {Case(NewFromUrl(FillUrl), FillResponse),
     Case([NewFromUrl(FillUrl) EXCEPT !.decompress = Some("Tar"), !.filename = Some(NameOut)],
          FillResponse),
     Case([NewFromUrl(FillUrl) EXCEPT !.decompress = Some("Gz")], FillResponse),
     Case([NewFromUrl(FillUrl) EXCEPT !.decompress = Some("Gz"),
                                      !.filename = Some(<<"g", "z">>)], FillResponse)}

\* The files that may exist before start_downloads.
FillFiles ==
    {<<>>,
     [p \in {<<CurrentDir, NameAGz>>} |-> "old"],
     [p \in {<<CurrentDir, NameOut>>, <<CurrentDir, <<"a">>>>} |-> "old"]}

\* const DEFAULT_SIMULTANEOUS_DOWNLOADS: usize = 3;
DEFAULT_SIMULTANEOUS_DOWNLOADS == 3

InitFill ==
    \E cases \in ListsAround(FillSubjects, FillOthers, MaxFillDownloads) :
        \E files \in FillFiles :
            Started0(cases, DEFAULT_SIMULTANEOUS_DOWNLOADS, files)

\* ---- SpecLive: lists of like Downloads under every capacity, with every
\* request and file operation completing eventually: a step of
\* start_downloads that can be taken is taken.
InitLive ==
    \E n \in 0..MaxDownloads :
        \E c \in SchedChoices :
            \E sim \in 0..MaxSimultaneous :
                Started0([i \in 1..n |-> SchedCase(i, c)], sim, <<>>)

SpecLive == InitLive /\ [][Next]_vars /\ WF_vars(Next)

SpecFill == InitFill /\ [][Next]_vars

\* ---- SpecThreads: the thread decision.
ThreadHosts ==
    {Some("cdimage.ubuntu.com"), Some("dl.sourceforge.net"), Some("example.com"),
     Some("mirror.cdimage.ubuntu.com"), None}

ThreadUrl(host) == Url(host, Some(<<<<"i", "s", "o">>>>))

\* Content lengths on both sides of every threshold of choose_threads.
ThreadLengths ==
    {0, 3, 99999999, 100000000, 249999999, 250000000, 999999999, 1000000000,
     1999999999, 2000000000, 2100000000}

\* A Download of some host, with or without with_threads, whose preflight is
\* redirected to some host and answered with some content length or none, or
\* fails.
ThreadSubjects ==
    {Case([NewFromUrl(ThreadUrl(orig)) EXCEPT !.preferred_threads = t,
                                             !.output = Some(SuppliedHandle)], r) :
        orig \in {Some("example.com"), Some("cdimage.ubuntu.com")},
        t \in {None, Some(0), Some(1), Some(3), Some(255)},
        r \in {Response("ok", len, ThreadUrl(final)) :
                  len \in {None} \cup {Some(l) : l \in ThreadLengths},
                  final \in ThreadHosts}
              \cup {Response("fail", None, ThreadUrl(Some("example.com")))}}

ThreadOthers ==
    {Case([NewFromUrl(ThreadUrl(Some("example.com"))) EXCEPT !.output = Some(SuppliedHandle)],
          Response("ok", Some(3), ThreadUrl(Some("dl.sourceforge.net"))))}

InitThreads ==
    \E cases \in ListsAround(ThreadSubjects, ThreadOthers, MaxThreadDownloads) :
        Started0(cases, DEFAULT_SIMULTANEOUS_DOWNLOADS, <<>>)

SpecThreads == InitThreads /\ [][Next]_vars

\* ---- SpecPreflight: the preflight and the requests that follow it.
OriginalUrl == ThreadUrl(Some("example.com"))

HeaderSet == "authorization"

\* The preflight is answered from the original host or, after a redirect,
\* from a mirror, with a content length of 3 or without one, or its send
\* fails.
PreflightResponses ==
    {Response("ok", Some(3), OriginalUrl),
     Response("ok", Some(3), ThreadUrl(Some("mirror.example.com"))),
     Response("ok", None, ThreadUrl(Some("mirror.example.com"))),
     Response("fail", None, OriginalUrl)}

\* Download::new(..).with_output_file(..), with or without with_headers.
PreflightSubjects ==
    {Case([NewFromUrl(OriginalUrl) EXCEPT !.headers = h, !.output = Some(SuppliedHandle)], r) :
        h \in {None, Some(HeaderSet)}, r \in PreflightResponses}

PreflightOthers ==
    {Case([NewFromUrl(OriginalUrl) EXCEPT !.output = Some(SuppliedHandle)], r) :
        r \in PreflightResponses}

InitPreflight ==
    \E cases \in ListsAround(PreflightSubjects, PreflightOthers, MaxPreflightDownloads) :
        Started0(cases, DEFAULT_SIMULTANEOUS_DOWNLOADS, <<>>)

SpecPreflight == InitPreflight /\ [][Next]_vars

\* ---- SpecPhases: the phases of start_downloads. Every Download fetches
\* http://host/a.gz: as it is, as a tar archive named "o" (rejected), as a gz
\* stream named "gz" (fill_output panics), or into a caller-supplied file.
PhaseDownloads ==
    {NewFromUrl(FillUrl),
     [NewFromUrl(FillUrl) EXCEPT !.decompress = Some("Tar"), !.filename = Some(NameOut)],
     [NewFromUrl(FillUrl) EXCEPT !.decompress = Some("Gz"), !.filename = Some(<<"g", "z">>)],
     [NewFromUrl(FillUrl) EXCEPT !.output = Some(SuppliedHandle)]}

\* The preflight is answered with a content length of 3 or without one, or
\* its send fails.
PhaseResponses ==
    {Response("ok", Some(3), FillUrl), Response("ok", None, FillUrl),
     Response("fail", None, FillUrl)}

PhaseCases == {Case(d, r) : d \in PhaseDownloads, r \in PhaseResponses}

\* The files that may exist before start_downloads.
PhaseFiles == {<<>>, [p \in {<<CurrentDir, NameAGz>>} |-> "old"]}

InitPhases ==
    \E n \in 1..MaxPhaseDownloads :
        \E cases \in [1..n -> PhaseCases] :
            \E files \in PhaseFiles :
                Started0(cases, DEFAULT_SIMULTANEOUS_DOWNLOADS, files)

SpecPhases == InitPhases /\ [][Next]_vars

-----------------------------------------------------------------------------
(* decompress.rs: SliceReader as an object                                *)

\* SliceReader::new over the slices ss.
NewReader(ss) ==
    /\ slices = ss
    /\ data0 = ss
    /\ index = 0
    /\ inner_index = 0
    /\ rpos = 0
    /\ lastOp = NoOp

\* reader.read(buf), buf.len() = n >= 1.
Read(n) ==
    /\ lastOp.status # "panic"
    /\ LET r == ReaderRead(slices, index, n)
       IN  /\ slices' = r.slices
           /\ index' = r.index
           /\ rpos' = rpos + Len(r.bytes)
           /\ lastOp' = [op |-> "read", arg |-> n, pre |-> rpos, status |-> "ok",
                         ret |-> Len(r.bytes), bytes |-> r.bytes]
    /\ UNCHANGED <<inner_index, data0>>
    /\ UNCHANGED <<chunkVars, dlVars, schedVars, archVars>>

\* reader.seek(SeekFrom::Start(offset) | End(offset) | Current(offset)).
Seek(kind, offset) ==
    /\ lastOp.status # "panic"
    /\ \E p \in SeekPos(slices, index, inner_index, kind, offset) :
          IF p.panic
          THEN /\ lastOp' = [op |-> kind, arg |-> offset, pre |-> rpos, status |-> "panic",
                             ret |-> 0, bytes |-> <<>>]
               /\ UNCHANGED <<index, inner_index, rpos>>
          ELSE LET r == Locate(slices, 0, 0, p.pos)
               IN  /\ index' = r.index
                   /\ inner_index' = r.inner_index
                   /\ rpos' = IF r.status = "ok" THEN r.ret ELSE rpos
                   /\ lastOp' = [op |-> kind, arg |-> offset, pre |-> rpos,
                                 status |-> r.status, ret |-> r.ret, bytes |-> <<>>]
    /\ UNCHANGED <<slices, data0>>
    /\ UNCHANGED <<chunkVars, dlVars, schedVars, archVars>>

\* Up to MaxSlices slices of 0..MaxSliceLen bytes; the bytes are numbered in
\* the order of the concatenation.
ReaderInputs ==
    UNION {{[i \in 1..k |->
                [j \in 1..lens[i] |-> TotalLen([h \in 1..i - 1 |-> [g \in 1..lens[h] |-> 0]]) + j]] :
               lens \in [1..k -> 0..MaxSliceLen]} :
           k \in 0..MaxSlices}

InitReader ==
    /\ \E ss \in ReaderInputs : NewReader(ss)
    /\ IdleChunks
    /\ chunks = <<>>
    /\ IdleDownload
    /\ IdleStart
    /\ IdleArchive

\* ---- SpecRead: a fresh reader and read calls only.
NextRead == \E n \in 1..MaxBuf : Read(n)

SpecRead == InitReader /\ [][NextRead]_vars

\* ---- SpecSeek: reads and seeks in any order.
SeekKinds == {"Start", "End", "Current"}

NextSeek ==
    \/ \E n \in 1..MaxBuf : Read(n)
    \/ \E kind \in SeekKinds :
          \E offset \in -(TotalLen(data0) + 1)..TotalLen(data0) + 1 :
              /\ kind = "Start" => offset >= 0
              /\ Seek(kind, offset)

SpecSeek == InitReader /\ [][NextSeek]_vars

-----------------------------------------------------------------------------
(* Properties of the chunk partition (SpecChunks).                        *)

\* The byte offsets of the half-open range [begin, end) of a chunk.
ChunkBytes(c) == {x \in 0..MaxLength + 1 : c.begin <= x /\ x < c.end}

AllRangesSent == \A i \in DOMAIN ranges : ranges[i] # Unsent

IsOpenForm(h) == \E b \in 0..2 * (MaxLength + MaxThreads) : h = Some(FormatOpen(b))

IsClosedForm(h) ==
    \E b, e \in 0..2 * (MaxLength + MaxThreads) : h = Some(FormatClosed(b, e))

\* C1: for every length L > 0 and every chunk count N >= 1 the ranges
\* [begin, end) of Chunks::new(N, L) are pairwise disjoint, their union is
\* exactly [0, L), and the last chunk's end is L.
C1_PartitionCovers ==
    (cphase = "built" /\ resLength > 0) =>
        /\ \A i, j \in DOMAIN chunks :
              i # j => ChunkBytes(chunks[i]) \cap ChunkBytes(chunks[j]) = {}
        /\ UNION {ChunkBytes(chunks[i]) : i \in DOMAIN chunks} = 0..resLength - 1
        /\ chunks[nThreads].end = resLength

\* Chunks::new(3, 7) has run: size 3, a short last chunk [6, 7).
C1_Witness ==
    /\ cphase = "built"
    /\ resLength = 7
    /\ nThreads = 3
    /\ chunks[3].begin = 6
    /\ chunks[3].end = 7

\* C2: every chunk of Chunks::new(N, L), L > 0, N >= 1, satisfies
\* 0 <= begin < end <= length, so end - begin never underflows.
C2_ChunkBounds ==
    (cphase = "built" /\ resLength > 0) =>
        \A i \in DOMAIN chunks :
            /\ 0 <= chunks[i].begin
            /\ chunks[i].begin < chunks[i].end
            /\ chunks[i].end <= chunks[i].length

\* C9: the Range header is absent iff begin = 0 and end = length, else
\* open-ended iff end = length, else bytes=begin-end; and so, of N >= 2 chunks,
\* exactly the last one is open-ended and every other one has the closed form,
\* while a single chunk sends no Range header.
C9_RangeForms ==
    (cphase = "built" /\ resLength > 0) =>
        /\ \A i \in DOMAIN ranges :
              ranges[i] # Unsent =>
                  LET c == chunks[i]
                  IN  /\ (ranges[i] = None) <=> (c.begin = 0 /\ c.end = c.length)
                      /\ ranges[i] # None =>
                            /\ (ranges[i] = Some(FormatOpen(c.begin))) <=> (c.end = c.length)
                            /\ c.end # c.length =>
                                  ranges[i] = Some(FormatClosed(c.begin, c.end))
        /\ (AllRangesSent /\ nThreads >= 2) =>
              /\ IsOpenForm(ranges[nThreads])
              /\ \A i \in 1..nThreads - 1 : IsClosedForm(ranges[i])
        /\ (AllRangesSent /\ nThreads = 1) => ranges[1] = None


-----------------------------------------------------------------------------
(* Properties of Download::spawn (SpecDownload).                          *)

RECURSIVE ConcatBufs(_)
ConcatBufs(cs) == IF cs = <<>> THEN <<>> ELSE Head(cs).buf \o ConcatBufs(Tail(cs))

\* C3: without archive format and checksum failure, once Chunks::save has
\* completed the output file has length exactly L and its bytes are the
\* concatenation of the chunk bodies in ascending begin order. (Stated for a
\* file that fill_output created, L > 0, and chunks with begin < end.)
C3_FileIsConcatOfBodies ==
    (/\ dpc = "done" /\ outcome = "Ok"
     /\ dl.archive = None
     /\ ~dl.supplied /\ dl.length > 0
     /\ \A i \in DOMAIN chunks : chunks[i].begin < chunks[i].end) =>
        /\ Len(file) = dl.length
        /\ file = ConcatBufs(SortByBegin(chunks))

\* C4: whatever order the transfers completed in, Chunks::verify feeds every
\* chunk payload to the hasher once, in ascending begin order, so that the bytes
\* hashed are the resource read as one stream from 0 to L.
C4_HashedIsResource ==
    (vres # "no" /\ dl.length > 0) =>
        (vres # "panic" /\ hashed = Resource(dl.length))

\* C6 as stated: on a checksum mismatch the output file holds the downloaded
\* bytes.
C6_FileHoldsDownload ==
    (outcome = "InvalidChecksum" /\ ~dl.supplied) => file = Resource(dl.length)

\* C6, amended: when the configured checksum does not match the downloaded
\* data, spawn never returns Ok, it returns InvalidChecksum exactly when
\* Chunks::verify ran to its comparison, and the output file is never written:
\* it stays as spawn found it (empty when fill_output created it).
C6_MismatchWritesNothing ==
    (dpc # "idle" /\ dl.checksum = "bad") =>
        /\ file = InitialFile(dl)
        /\ outcome # "Ok"
        /\ (vres = "mismatch") <=> (outcome = "InvalidChecksum")

\* Three chunks of a 4-byte resource were downloaded and hashed; the digest
\* did not match.
C6_Witness ==
    /\ dpc = "done"
    /\ outcome = "InvalidChecksum"
    /\ dl.length = 4
    /\ dl.threads = 3
    /\ ~dl.supplied
    /\ hashed = Resource(4)
    /\ file = <<>>

-----------------------------------------------------------------------------
(* Properties of start_downloads: dispatch (Spec).                        *)

\* C5: at every moment of the dispatch no more than `simultaneous` spawns are
\* active; a further Download is started only into a free slot.
C5_AtMostSimultaneousActive == Cardinality(Active) <= simultaneous

\* Two spawns are running with a capacity of two while a third Download
\* waits in the stream.
C5_Witness ==
    /\ phase = "dispatch"
    /\ simultaneous = 2
    /\ Cardinality(Active) = 2
    /\ \E i \in Idx : rt[i].spawn = "idle"

-----------------------------------------------------------------------------
(* Properties of start_downloads: output resolution (SpecFill).           *)

NoRequestSent == \A j \in Idx : rt[j].pre = "unsent" /\ rt[j].ranged = 0

Terminated == phase \in {"returned", "panicked"}

\* start_downloads returned the first error of fill_download_files in list
\* order.
ReturnedFirstFillError ==
    \E k \in DOMAIN fillRes :
        /\ fillRes[k] = ret
        /\ ret \in {"FileError", "UnsupportedFileName"}
        /\ \A j \in 1..k - 1 : fillRes[j] = "Ok"

\* Download i was given no output file, is not rejected for its file name, and
\* a file existed at the path fill_output derives for it when start_downloads
\* was called.
DestinationExisted(i) ==
    /\ phase # "start"
    /\ downloads[i].output # Some(SuppliedHandle)
    /\ ~Rejected(downloads[i])
    /\ ~StripPanics(downloads[i])
    /\ DestPath(downloads[i]) \in DOMAIN files0

\* C7 as stated: if a file already exists at a Download's derived destination
\* path, start_downloads returns FileError, the file is left unchanged and no
\* ranged GET is issued for that Download. (Stated for the runs in which
\* start_downloads returns.)
C7_ReturnsFileError ==
    \A i \in Idx :
        DestinationExisted(i) =>
            /\ phase = "returned" => ret = "FileError"
            /\ fs[DestPath(downloads[i])] = files0[DestPath(downloads[i])]
            /\ rt[i].ranged = 0

\* C7, amended: if a file already exists at a Download's derived destination
\* path, fill_output fails for it with FileError, the file is left unchanged,
\* no request (preflight or ranged) is sent for any Download, and
\* start_downloads never returns Ok: unless a fill_output panics it returns
\* the first fill_output error in list order, FileError or the
\* UnsupportedFileName of an earlier Download.
C7_ExistingDestinationFails ==
    \A i \in Idx :
        DestinationExisted(i) =>
            /\ fs[DestPath(downloads[i])] = files0[DestPath(downloads[i])]
            /\ i \in DOMAIN fillRes => fillRes[i] = "FileError"
            /\ NoRequestSent
            /\ Terminated
            /\ phase = "returned" => ReturnedFirstFillError

\* The only Download derives cwd/a.gz from its URL, where a file exists:
\* FileError, and the file is as it was.
C7_Witness ==
    /\ phase = "returned"
    /\ ret = "FileError"
    /\ Len(downloads) = 1
    /\ DestinationExisted(1)
    /\ DestPath(downloads[1]) = <<CurrentDir, NameAGz>>
    /\ fs[<<CurrentDir, NameAGz>>] = "old"

MultiEntryFormats == {"Tar", "TarBz2", "TarGz", "TarXz", "TarZst", "Zip"}

NamedMultiEntry(i) ==
    /\ downloads[i].decompress \in {Some(f) : f \in MultiEntryFormats}
    /\ downloads[i].filename # None

\* C8 as stated: a multi-entry archive format together with a user file name
\* is rejected with UnsupportedFileName before any byte is fetched, whether or
\* not an output file was supplied. (Stated for a Downloader of one Download.)
C8_RejectedForEveryDestination ==
    (Len(downloads) = 1 /\ NamedMultiEntry(1)) =>
        /\ NoRequestSent
        /\ phase = "returned" => ret = "UnsupportedFileName"

\* C8, amended: a Download with a multi-entry archive format, a user file name
\* and no caller-supplied output file is rejected by fill_output with
\* UnsupportedFileName; no request is sent for any Download and
\* start_downloads never returns Ok: unless a fill_output panics it returns
\* the first fill_output error in list order.
C8_RejectedWithoutSuppliedOutput ==
    \A i \in Idx :
        (phase # "start" /\ NamedMultiEntry(i) /\ downloads[i].output = None) =>
            /\ i \in DOMAIN fillRes => fillRes[i] = "UnsupportedFileName"
            /\ NoRequestSent
            /\ Terminated
            /\ phase = "returned" => ReturnedFirstFillError

\* A tar.zst Download named "o" without an output file is the only Download:
\* UnsupportedFileName, nothing sent, no file created.
C8_Witness ==
    /\ phase = "returned"
    /\ ret = "UnsupportedFileName"
    /\ Len(downloads) = 1
    /\ downloads[1].decompress = Some("TarZst")
    /\ downloads[1].filename = Some(NameOut)
    /\ downloads[1].output = None
    /\ NoRequestSent
    /\ fs = files0

-----------------------------------------------------------------------------
(* Properties of start_downloads: the thread decision (SpecThreads).      *)

\* The thread count the decision is to give for a content length and the host
\* of the final URL.
DecidedThreads(length, host) ==
    IF host \in {Some("cdimage.ubuntu.com"), Some("dl.sourceforge.net")} THEN 1
    ELSE IF length >= 2000000000 THEN 5
    ELSE IF length >= 1000000000 THEN 4
    ELSE IF length >= 250000000 THEN 3
    ELSE IF length >= 100000000 THEN 2
    ELSE 1

\* C10: a Download without preferred_threads gets 1 thread when the host of
\* its final (post-preflight) URL is on the single-threaded list, else 5, 4,
\* 3, 2 or 1 by content length; a Download with preferred_threads keeps them.
C10_ThreadDecision ==
    [][\A i \in Idx :
          /\ downloads[i].preferred_threads # None =>
                downloads'[i].preferred_threads = downloads[i].preferred_threads
          /\ (phase = "lengths" /\ downloads[i].preferred_threads = None) =>
                downloads'[i].preferred_threads =
                    Some(DecidedThreads(Unwrap(srv[i].length), srv[i].url.host))]_vars

\* A 2 GB download from example.com that the preflight saw redirected to
\* cdimage.ubuntu.com runs on one thread; its neighbour case, not redirected,
\* is covered by the same run.
C10_Witness ==
    /\ phase = "dispatch"
    /\ \E i \in Idx :
          /\ srv[i].url.host = Some("cdimage.ubuntu.com")
          /\ srv[i].length = Some(2000000000)
          /\ downloads[i].preferred_threads = Some(1)
          /\ rt[i].ranged = 1

-----------------------------------------------------------------------------
(* Properties of start_downloads: termination (SpecLive).                 *)

\* C11: for every list of Downloads and every capacity the builder accepts,
\* with every request and file operation completing eventually,
\* start_downloads eventually returns Ok or Err.
C11_EventuallyReturns == <>(phase = "returned")

-----------------------------------------------------------------------------
(* Properties of start_downloads: failures in the dispatch (Spec).        *)

FailedSpawns == {k \in DOMAIN collected : collected[k] # "Ok"}

\* C12: the first failing Download aborts the collection: start_downloads
\* returns that failure without waiting for the Downloads still pending or in
\* flight, so no outcome is collected after the first failure.
C12_FirstFailureAborts ==
    (phase = "returned" /\ FailedSpawns # {}) =>
        /\ \A k \in FailedSpawns : k = Len(collected)
        /\ ret = collected[Len(collected)]

-----------------------------------------------------------------------------
(* Properties of the preflight (SpecPreflight).                           *)

PreflightSucceeded == phase \in {"lengths", "threads", "dispatch"}

NoContentLength(i) == srv[i].status = "ok" /\ srv[i].length = None

\* After a successful preflight Download i has its content length and the
\* response's final URL; its ranged GETs go to that URL with its headers.
LengthUrlAndRequests(i) ==
    /\ PreflightSucceeded =>
          /\ downloads[i].content_length = srv[i].length
          /\ downloads[i].content_length # None
          /\ downloads[i].url = srv[i].url
    /\ rt[i].rangedReq # None =>
          rt[i].rangedReq = Some([url |-> srv[i].url, headers |-> downloads[i].headers])

\* C13 as stated: after a successful preflight every Download has
\* content_length set and its url replaced by the final URL; a response
\* without a content length makes start_downloads fail with ContentLength;
\* every ranged GET goes to the final URL and carries the Download's headers.
C13_PreflightRecorded ==
    \A i \in Idx :
        /\ LengthUrlAndRequests(i)
        /\ NoContentLength(i) =>
              /\ ~PreflightSucceeded
              /\ phase = "returned" => ret = "ContentLength"

\* C13, amended: as stated, except that a response without a content length
\* makes start_downloads fail with the first preflight error in list order:
\* ContentLength unless the preflight of an earlier Download failed; no ranged
\* GET is sent for any Download.
C13_PreflightRecordedFirstError ==
    \A i \in Idx :
        /\ LengthUrlAndRequests(i)
        /\ NoContentLength(i) =>
              /\ ~PreflightSucceeded
              /\ ret # "Ok"
              /\ \A j \in Idx : rt[j].ranged = 0 /\ rt[j].rangedReq = None
              /\ phase = "returned" =>
                    /\ ret \in {"ContentLength", "RequestError"}
                    /\ (\A j \in 1..i - 1 : srv[j].status = "ok" /\ srv[j].length # None)
                          => ret = "ContentLength"

\* A Download with headers whose preflight was redirected to the mirror: the
\* preflight went to the original URL, the ranged GET goes to the mirror with
\* the headers.
C13_Witness ==
    /\ phase = "dispatch"
    /\ \E i \in Idx :
          /\ downloads[i].headers = Some(HeaderSet)
          /\ rt[i].preReq = Some([url |-> OriginalUrl, headers |-> Some(HeaderSet)])
          /\ rt[i].rangedReq = Some([url |-> ThreadUrl(Some("mirror.example.com")),
                                     headers |-> Some(HeaderSet)])
          /\ downloads[i].content_length = Some(3)

-----------------------------------------------------------------------------
(* Properties of SliceReader (SpecRead, SpecSeek).                        *)

\* The bytes of the concatenation a read of `count` bytes at the absolute
\* position `pos` is to return.
ConcatAt(pos, count) == SubSeq(Concat(data0), pos + 1, pos + count)

\* C14: on a fresh reader, reads with non-empty buffers return the bytes of
\* the concatenation of the slices in order, without loss or duplication,
\* skipping empty slices; a read returns 0 only when every byte has been
\* returned.
C14_ReadsReturnConcatenation ==
    lastOp.op = "read" =>
        /\ lastOp.ret <= lastOp.arg
        /\ lastOp.bytes = ConcatAt(lastOp.pre, lastOp.ret)
        /\ lastOp.ret = 0 => lastOp.pre = TotalLen(data0)

\* Three slices with an empty one in the middle have been read to the end:
\* the read after the last byte returned 0.
C14_Witness ==
    /\ Len(data0) = 3
    /\ data0[1] # <<>> /\ data0[2] = <<>> /\ data0[3] # <<>>
    /\ lastOp.op = "read"
    /\ lastOp.ret = 0
    /\ rpos = TotalLen(data0)

\* The absolute offset a seek is to resolve to.
SeekTarget ==
    CASE lastOp.op = "Start"   -> lastOp.arg
      [] lastOp.op = "End"     -> TotalLen(data0) + lastOp.arg
      [] lastOp.op = "Current" -> lastOp.pre + lastOp.arg

\* C15: after any reads and seeks, a seek resolves to p, total_length + d or
\* current position + d; a target inside the data is returned and the next
\* read returns the bytes of the concatenation from that offset; a target
\* beyond the total length fails with InvalidInput.
C15_SeekResolves ==
    /\ lastOp.op \in SeekKinds =>
          /\ (0 <= SeekTarget /\ SeekTarget < TotalLen(data0)) =>
                (lastOp.status = "ok" /\ lastOp.ret = SeekTarget)
          /\ SeekTarget > TotalLen(data0) => lastOp.status = "InvalidInput"
    /\ lastOp.op = "read" => lastOp.bytes = ConcatAt(lastOp.pre, lastOp.ret)

-----------------------------------------------------------------------------
(* Properties of fill_output: the name of the created file (SpecFill).    *)

\* The extension of a single-file codec with its leading dot.
DottedExtension(format) ==
    CASE format = "Bz2" -> <<".", "b", "z", "2">>
      [] format = "Gz"  -> <<".", "g", "z">>
      [] format = "Xz"  -> <<".", "x", "z">>
      [] format = "Zst" -> <<".", "z", "s", "t">>

\* The name the file is to be created under: shortened by the dotted extension
\* for a single-file codec whose extension the name ends with, else unmodified.
ExpectedName(d) ==
    LET name == EffectiveName(d)
    IN  IF /\ d.decompress \in {Some("Bz2"), Some("Gz"), Some("Xz"), Some("Zst")}
           /\ EndsWith(name, DottedExtension(Unwrap(d.decompress)))
        THEN SubSeq(name, 1, Len(name) - Len(DottedExtension(Unwrap(d.decompress))))
        ELSE name

\* C16: without a caller-supplied handle, the file name is shortened only for
\* Bz2, Gz, Xz, Zst and only by the extension with its leading dot when the
\* name ends with it; with no archive format, a multi-entry format or another
\* ending the file is created under the unmodified name.
C16_NameShortenedOnlyForCodecs ==
    \A i \in DOMAIN fillRes :
        (/\ fillRes[i] = "Ok"
         /\ downloads[i].output # Some(SuppliedHandle)) =>
            Unwrap(downloads[i].output).path[2] = ExpectedName(downloads[i])

-----------------------------------------------------------------------------
(* Properties of the chunk size (SpecChunks).                             *)

CeilDiv(a, b) == (a + b - 1) \div b

\* C17: Chunks::new(N, L) uses the chunk size ceil(L / N) and emits the ranges
\* [size * i, min(size * (i + 1), L)) for i in [0, N).
C17_CeilChunkSize ==
    (cphase = "built" /\ resLength > 0) =>
        \A i \in DOMAIN chunks :
            /\ chunks[i].begin = CeilDiv(resLength, nThreads) * (i - 1)
            /\ chunks[i].end = Min(CeilDiv(resLength, nThreads) * i, resLength)

-----------------------------------------------------------------------------
(* Properties of the steps of Download::spawn (SpecDownload).             *)

\* Every chunk transfer of the Download has finished with Ok.
AllTransfersOk ==
    /\ results # <<>>
    /\ \A i \in DOMAIN results : results[i] = "Ok"

\* verify has hashed something or has come to a verdict.
VerifyRan == hashed # <<>> \/ vres # "no"

\* save or save_archive has started, or a byte has reached the output file or
\* the extraction directory.
SaveRan ==
    \/ dpc \in {"saving", "unpacking"}
    \/ saveIdx >= 1
    \/ file # InitialFile(dl)
    \/ tarball # <<>>
    \/ extracted # <<>>

\* The outer progress bar has been incremented.
OuterBarIncremented == mainBar # None /\ mainBar # Some(0)

\* C18: within spawn, verify runs only after every chunk transfer finished,
\* save or save_archive only after verify passed (when a checksum is
\* configured), the outer progress increment only after the save returned Ok;
\* on a mismatch spawn fails with InvalidChecksum, neither save nor
\* save_archive runs and nothing reaches the output file or the extraction
\* directory.
C18_SpawnStepOrder ==
    /\ VerifyRan => AllTransfersOk
    /\ SaveRan => (AllTransfersOk /\ (ChecksumOf(dl) # None => vres = "ok"))
    /\ OuterBarIncremented =>
          /\ dpc = "done" /\ outcome = "Ok"
          /\ mainBar = Some(1)
          /\ dl.archive = None => saveIdx > Len(chunks)
    /\ vres = "mismatch" =>
          /\ dpc = "done" /\ outcome = "InvalidChecksum"
          /\ ~SaveRan
          /\ ~OuterBarIncremented

\* A Download with an archive format and both bars whose checksum did not
\* match, after a transfer of more than one chunk.
C18_Witness ==
    /\ vres = "mismatch" /\ dpc = "done"
    /\ dl.archive # None /\ dl.mainBar /\ dl.length > 0
    /\ Len(chunks) >= 2

\* C19: Chunks::download sends the request of every chunk before any of them
\* is awaited and returns only when no transfer is pending; spawn goes on
\* past it iff every transfer succeeded, otherwise spawn returns the error of
\* the first failing chunk in chunk order, verify and save do not run and the
\* per-file bar is not finished; on success the per-file bar is finished.
C19_DownloadJoinsAll ==
    /\ dpc = "downloading" => (Len(reqs) = dl.threads /\ Len(results) = dl.threads)
    /\ (dpc # "downloading" /\ dpc # "spawn") =>
          \/ dl.threads = 0
          \/ \A i \in DOMAIN results : results[i] # "pending"
    /\ (dpc \in {"downloaded", "saving", "unpacking"} \/ VerifyRan \/ SaveRan)
          => AllTransfersOk
    /\ AllTransfersOk =>
          (dpc = "downloading" \/ outcome \notin {"RequestError", "ReqwestError"})
    /\ (dpc # "downloading" /\ AllTransfersOk /\ dl.fileBar) => fileBar = "finished"
    /\ (dpc # "downloading" /\ \E i \in DOMAIN results : results[i] \notin {"Ok", "pending"}) =>
          /\ dpc = "done"
          /\ \E i \in DOMAIN results :
                /\ results[i] # "Ok"
                /\ \A j \in 1..i - 1 : results[j] = "Ok"
                /\ outcome = results[i]
          /\ ~VerifyRan
          /\ ~SaveRan
          /\ fileBar # "finished"

\* Two chunks failed differently, the later one with the stream broken after
\* part of its body, and the Download has a per-file bar and a checksum.
C19_Witness ==
    /\ dpc = "done"
    /\ Len(results) >= 3
    /\ results[1] = "Ok"
    /\ results[2] = "RequestError"
    /\ results[3] = "ReqwestError"
    /\ outcome = "RequestError"
    /\ dl.fileBar /\ dl.checksum = "good"

-----------------------------------------------------------------------------
(* Properties of the decompress pipeline (SpecDownload).                  *)

\* C20: for every tarball format, plain Tar included, when save_archive has
\* returned Ok the buffer that was unpacked holds the (decoded) bytes of the
\* reader: for plain Tar the concatenation of the chunk slices byte for byte,
\* and the output file has received no bytes.
C20_TarballBufferFilled ==
    (/\ dpc = "done" /\ outcome = "Ok"
     /\ dl.archive # None
     /\ IsTarball(Unwrap(dl.archive))) =>
        /\ file = InitialFile(dl)
        /\ IF dl.archive = Some("Tar")
           THEN tarball = Concat(ArchiveSlices(chunks))
           ELSE [ok |-> TRUE, bytes |-> tarball] \in Decoded(Concat(ArchiveSlices(chunks)))

-----------------------------------------------------------------------------
(* Properties of the Download of an empty resource (SpecDownload).        *)

\* C21: for a resource of length 0 and any chunk count of 1 or more, no chunk
\* has begin > end, no body byte is transferred, spawn does not panic, a
\* supplied checksum is compared against the digest of the empty byte string
\* (so the checksum of the empty resource passes), and the created output file
\* stays empty.
C21_EmptyResourceCompletes ==
    (dl.length = 0 /\ dl.threads >= 1 /\ ~dl.supplied) =>
        /\ \A i \in DOMAIN chunks :
              /\ chunks[i].begin <= chunks[i].end
              /\ chunks[i].buf = <<>>
        /\ outcome # "panic"
        /\ vres # "no" =>
              /\ hashed = <<>>
              /\ vres = (IF dl.checksum = "good" THEN "ok" ELSE "mismatch")
        /\ file = <<>>

-----------------------------------------------------------------------------
(* Properties of the phases of start_downloads (SpecPhases).              *)

\* fill_output has returned an error for Download i.
FillFailed(i) == i \in DOMAIN fillRes /\ fillRes[i] \notin {"Ok", "panic"}

\* The preflight of Download i was answered with an error.
PreflightFailed(i) == rt[i].pre = "answered" /\ LengthResult(srv[i]) # "Ok"

\* No ranged GET was sent and no spawn was polled.
NoRangedSent == \A j \in Idx : rt[j].ranged = 0 /\ rt[j].spawn = "idle"

\* A preflight request is sent only after fill_output has run for every
\* Download, a ranged GET only after the preflight of every Download has
\* completed.
PhasesAreBarriers ==
    /\ (\E i \in Idx : rt[i].pre # "unsent") =>
          /\ Len(fillRes) = Len(downloads)
          /\ \A j \in Idx : fillRes[j] = "Ok"
    /\ ~NoRangedSent =>
          \A j \in Idx : rt[j].pre = "answered" /\ LengthResult(srv[j]) = "Ok"

\* C22 as stated: the phases are barriers; if fill_output fails for a
\* Download, start_downloads returns that error and no request of any kind
\* was sent; if a preflight fails, it returns that error and no ranged GET was
\* sent.
C22_PhaseBarriers ==
    /\ PhasesAreBarriers
    /\ \A i \in Idx :
          /\ FillFailed(i) =>
                /\ NoRequestSent /\ NoRangedSent
                /\ phase = "returned" => ret = fillRes[i]
          /\ PreflightFailed(i) =>
                /\ NoRangedSent
                /\ phase = "returned" => ret = LengthResult(srv[i])

\* C22, amended: as stated, except that the error returned is the first one
\* of the failing phase in list order, and start_downloads never returns Ok
\* after a failure.
C22_PhaseBarriersFirstError ==
    /\ PhasesAreBarriers
    /\ \A i \in Idx :
          /\ FillFailed(i) =>
                /\ NoRequestSent /\ NoRangedSent
                /\ Terminated /\ ret # "Ok"
                /\ phase = "returned" =>
                      /\ \E k \in 1..i : FillFailed(k) /\ ret = fillRes[k]
                                         /\ \A j \in 1..k - 1 : fillRes[j] = "Ok"
          /\ PreflightFailed(i) =>
                /\ NoRangedSent
                /\ ret # "Ok"
                /\ phase = "returned" =>
                      /\ \E k \in 1..i : ret = LengthResult(srv[k])
                                         /\ \A j \in 1..k - 1 : LengthResult(srv[j]) = "Ok"

\* Two Downloads whose files were created and whose preflights both failed,
\* the first without a content length and the second in its send:
\* start_downloads returned ContentLength and sent no ranged GET.
C22_Witness ==
    /\ phase = "returned"
    /\ Len(downloads) = 2
    /\ fillRes = <<"Ok", "Ok">>
    /\ rt[1].preReq # None /\ rt[2].preReq # None
    /\ LengthResult(srv[1]) = "ContentLength"
    /\ LengthResult(srv[2]) = "RequestError"
    /\ ret = "ContentLength"
    /\ NoRangedSent

-----------------------------------------------------------------------------
(* Properties of the thread count handed to Chunks::new (SpecThreads).    *)

\* C23: after finalize_threads every Download's preferred_threads is set to a
\* value in [1, 255], whatever was passed to with_threads, and no spawn calls
\* Chunks::new with a thread count of 0.
C23_ThreadsInRange ==
    \A i \in Idx :
        /\ phase \in {"threads", "dispatch"} =>
              /\ downloads[i].preferred_threads # None
              /\ Unwrap(downloads[i].preferred_threads) \in 1..255
        /\ rt[i].spawn # "idle" =>
              /\ Unwrap(downloads[i].preferred_threads) \in 1..255
              /\ rt[i].ranged >= 1

-----------------------------------------------------------------------------
(* Properties of start_downloads: every Download once (Spec).             *)

\* The Downloads whose spawn has returned a Result.
Finished == {i \in Idx : rt[i].spawn \notin {"idle", "active", "panic"}}

\* C24: every spawn that returned was collected once (no Download started
\* twice) and Downloads are started in list order without a gap; when
\* start_downloads returns Ok every Download of the list was spawned, sent its
\* ranged GETs and returned Ok from its save or save_archive; once a spawn has
\* returned an error start_downloads does not return Ok: when it returns, it
\* returns the error of one of the spawns.
C24_OkOnlyIfAllSpawnedOnce ==
    /\ Len(collected) = Cardinality(Finished)
    /\ \A i \in Idx : rt[i].spawn # "idle" <=> (i < nextIdx /\ phase \notin {"start", "filled", "preflight", "lengths", "threads"})
    /\ (phase = "returned" /\ ret = "Ok") =>
          /\ Len(collected) = Len(downloads)
          /\ \A i \in Idx : rt[i].spawn = "Ok" /\ rt[i].ranged >= 1
    /\ (\E i \in Idx : i \in Finished /\ rt[i].spawn # "Ok") =>
          /\ ret # "Ok"
          /\ phase = "returned" => \E i \in Finished : rt[i].spawn # "Ok" /\ ret = rt[i].spawn

\* Three Downloads went through a queue of two, one after the other into the
\* free slot, and start_downloads returned Ok.
C24_Witness ==
    /\ phase = "returned"
    /\ ret = "Ok"
    /\ Len(downloads) = 3
    /\ simultaneous = 2
    /\ collected = <<"Ok", "Ok", "Ok">>
    /\ \A i \in Idx : rt[i].spawn = "Ok"

=============================================================================
